---- MODULE Spec2Model ----
(***************************************************************************)
(* Model of the notebook post.ipynb: the (year, month) grid `dates` and    *)
(* the caching query function get_df(term, db, dates, overwrite, sleep).   *)
(*                                                                         *)
(* Text (file names, CSV cells) is a sequence of one-character strings.    *)
(* Rows are numbered from 1 here and from 0 in the notebook.               *)
(***************************************************************************)
EXTENDS Integers, Sequences, FiniteSets

VARIABLES
    ndates,     \* the notebook global `ndates`: len(dates), the number of queries
    periods,    \* the period list handed to get_df (a bounded window of dates)
    files,      \* the working directory: file name -> [exists, rows]
    last        \* what the most recent get_df call was given, did and returned

vars == <<ndates, periods, files, last>>

----------------------------------------------------------------------------
(* Bounds of the model.                                                    *)

\* Longest period list handed to get_df, and longest stored cache.
MaxN == 2

\* Index in `dates` at which the period lists handed to get_df start
\* (11 is (1991, 12), so that a list of two periods crosses a year).
WinStart == 11

\* Result counts a successful query can return: none, or some documents.
Counts == {0, 12}

\* The (term, database) pairs get_df is called with.
Pairs ==
    { << <<"a", "_", "b">>, <<"c">> >>,
      << <<"a">>, <<"b", "_", "c">> >>,
      << <<"a">>, <<"c">> >> }

----------------------------------------------------------------------------
(* Text conversions: what str.format, DataFrame.to_csv, pandas.read_csv    *)
(* and pandas.to_datetime do to integers and dates.                        *)

Digits == <<"0", "1", "2", "3", "4", "5", "6", "7", "8", "9">>

DigitVal(c) == (CHOOSE k \in 1..10 : Digits[k] = c) - 1

RECURSIVE FormatNat(_)
FormatNat(n) ==
    IF n < 10 THEN <<Digits[n + 1]>>
    ELSE FormatNat(n \div 10) \o <<Digits[(n % 10) + 1]>>

FormatInt(n) == IF n < 0 THEN <<"-">> \o FormatNat(-n) ELSE FormatNat(n)

RECURSIVE ParseNat(_)
ParseNat(s) ==
    IF Len(s) = 0 THEN 0
    ELSE 10 * ParseNat(SubSeq(s, 1, Len(s) - 1)) + DigitVal(s[Len(s)])

ParseInt(s) == IF s[1] = "-" THEN -ParseNat(Tail(s)) ELSE ParseNat(s)

RECURSIVE Pad(_, _)
Pad(s, w) == IF Len(s) >= w THEN s ELSE Pad(<<"0">> \o s, w)

\* str(datetime.date(y, m, d)): YYYY-MM-DD
isoformat(d) ==
    Pad(FormatNat(d[1]), 4) \o <<"-">> \o Pad(FormatNat(d[2]), 2)
        \o <<"-">> \o Pad(FormatNat(d[3]), 2)

\* The date a YYYY-MM-DD text denotes.
parse_date(s) ==
    <<ParseNat(SubSeq(s, 1, 4)), ParseNat(SubSeq(s, 6, 7)), ParseNat(SubSeq(s, 9, 10))>>

\* A cell of the in-memory date column holds a datetime.date object or the
\* text read from the CSV file.
DateObj(d) == [kind |-> "date", val |-> d]
StrObj(s) == [kind |-> "str", val |-> s]

str(v) == IF v.kind = "date" THEN isoformat(v.val) ELSE v.val

to_datetime(v) == IF v.kind = "date" THEN v.val ELSE parse_date(v.val)

to_csv(df) ==
    [i \in 1..Len(df) |-> [date |-> str(df[i].date), count |-> FormatInt(df[i].count)]]

read_csv(rows) ==
    [i \in 1..Len(rows) |->
        [date |-> StrObj(rows[i].date), count |-> ParseInt(rows[i].count)]]

----------------------------------------------------------------------------
(* The grid of year-month combinations.                                    *)

years == 1991..2018
months == 1..12

\* itertools.product(years, months): years outermost, months innermost.
product ==
    LET y0 == CHOOSE y \in years : \A z \in years : y <= z
        nm == Cardinality(months)
    IN  [k \in 1..(Cardinality(years) * nm) |->
            <<y0 + ((k - 1) \div nm), 1 + ((k - 1) % nm)>>]

\* Variant of keep that lets March 2018 through.
keep_through_march(p) == p[1] < 2018 \/ (p[1] = 2018 /\ p[2] <= 3)

keep(p) == p[1] < 2018 \/ (p[1] = 2018 /\ p[2] < 3)

drop_first(s) == Tail(s)

\* The notebook global `dates`: assigned once, by the cell that builds it.
dates == drop_first(SelectSeq(product, keep))

----------------------------------------------------------------------------
(* get_df                                                                  *)

cache_file(term, db) == term \o <<"_">> \o db \o <<".", "c", "s", "v">>

FileNames == {cache_file(p[1], p[2]) : p \in Pairs}

NoFile == [exists |-> FALSE, rows |-> <<>>]
File(rows) == [exists |-> TRUE, rows |-> rows]

placeholder == <<1984, 1, 1>>

fresh(len) ==
    [i \in 1..len |-> [date |-> DateObj(placeholder), count |-> -1]]

\* Variants of needs_init: one ignores overwrite, one rebuilds on every call.
needs_init_if_absent(exists, overwrite) == ~exists

needs_init_always(exists, overwrite) == TRUE

needs_init(exists, overwrite) == ~exists \/ overwrite

\* Variant of resolved that takes a stored count of 0 for pending.
resolved_if_positive(count) == count > 0

resolved(count) == count >= 0

all_resolved(df) == \A i \in 1..Len(df) : df[i].count >= 0

first_of_month(y, m) == <<y, m, 1>>

\* The record st is the state of one call: d the dict made from the cache,
\* queries the indices queried so far, answers the counts obtained, raised
\* the exception that ended the call ("none" when it returned).
start(df) == [d |-> df, queries |-> <<>>, answers |-> <<>>, raised |-> "none"]

\* Variant of query_ok that leaves the date column alone.
query_ok_keeps_date(st, i, dts, ndocs) ==
    [st EXCEPT
        !.d[i].count = ndocs,
        !.queries = Append(@, i),
        !.answers = Append(@, ndocs)]

\* Variant of query_ok that stores a count only when documents came back.
query_ok_unless_empty(st, i, dts, ndocs) ==
    [st EXCEPT
        !.d[i] = IF ndocs = 0 THEN @
                 ELSE [date |-> DateObj(<<dts[i][1], dts[i][2], 1>>), count |-> ndocs],
        !.queries = Append(@, i),
        !.answers = Append(@, ndocs)]

\* Lines 95-97 when the query returns ndocs documents.
query_ok(st, i, dts, ndocs) ==
    [st EXCEPT
        !.d[i] = [date |-> DateObj(first_of_month(dts[i][1], dts[i][2])),
                  count |-> ndocs],
        !.queries = Append(@, i),
        !.answers = Append(@, ndocs)]

\* Lines 95-96 when the query raises: the exception leaves get_df.
query_raises(st, i) ==
    [st EXCEPT !.queries = Append(@, i), !.raised = "query"]

\* The for loop over enumerate(dates) from index i on: the set of states it
\* can end in, one for each way the search service can answer the queries
\* (each query raises, or returns a number of documents in Counts).
RECURSIVE loop(_, _, _)
loop(st, i, dts) ==
    IF i > Len(dts) THEN {st}
    ELSE IF i \notin DOMAIN st.d THEN {[st EXCEPT !.raised = "KeyError"]}
    ELSE IF resolved(st.d[i].count) THEN loop(st, i + 1, dts)
    ELSE {query_raises(st, i)}
            \cup UNION {loop(query_ok(st, i, dts, c), i + 1, dts) : c \in Counts}

run_loop(df, dts) ==
    IF ~all_resolved(df) THEN loop(start(df), 1, dts) ELSE {start(df)}

\* Variant of persist that never writes the cache back.
persist_never(st, created) == created

\* Lines 105-106: reached only when nothing was raised.
persist(st, created) ==
    IF st.raised = "none" THEN File(to_csv(st.d)) ELSE created

\* Lines 105-109: the DataFrame returned (none when an exception left get_df).
returned(st) ==
    IF st.raised = "none"
    THEN [i \in 1..Len(st.d) |->
            [date |-> to_datetime(st.d[i].date), count |-> st.d[i].count]]
    ELSE <<>>

NoCall ==
    [called |-> FALSE, term |-> <<>>, db |-> <<>>, overwrite |-> FALSE,
     before |-> NoFile, queries |-> <<>>, answers |-> <<>>, raised |-> "none",
     table |-> <<>>, repeat |-> FALSE, prev |-> <<>>]

\* One call get_df(term, db, dts, overwrite). `last` records the call:
\* before is the cache file as the call found it; repeat says that the call
\* repeats the previous one (same term and db, both without overwrite, the
\* previous one returned), and prev is then the table that one returned.
get_df(term, db, dts, overwrite) ==
    LET f == cache_file(term, db)
        before == files[f]
        repeat ==
            /\ last.called /\ last.raised = "none"
            /\ last.term = term /\ last.db = db
            /\ ~last.overwrite /\ ~overwrite
    IN  \E created \in {IF needs_init(before.exists, overwrite)
                        THEN File(to_csv(fresh(Len(dts))))
                        ELSE before} :
        \E st \in run_loop(read_csv(created.rows), dts) :
            /\ files' = [files EXCEPT ![f] = persist(st, created)]
            /\ last' = [called |-> TRUE, term |-> term, db |-> db,
                        overwrite |-> overwrite, before |-> before,
                        queries |-> st.queries, answers |-> st.answers,
                        raised |-> st.raised, table |-> returned(st),
                        repeat |-> repeat,
                        prev |-> IF repeat THEN last.table ELSE <<>>]
            /\ UNCHANGED <<ndates, periods>>

----
(* Initial states and specifications.                                      *)

\* The period list of n periods the calls are given.
Window(len) == SubSeq(dates, WinStart, WinStart + len - 1)

\* The caches a run over the period list dts can have left on disk: row i
\* is pending, or resolved with some count and the date of period i.
StoredRows(dts) ==
    [1..Len(dts) ->
        {[pending |-> TRUE, ndocs |-> 0]}
            \cup {[pending |-> FALSE, ndocs |-> c] : c \in Counts}]

Stored(dts, choice) ==
    File([i \in 1..Len(dts) |->
            IF choice[i].pending
            THEN [date |-> isoformat(placeholder), count |-> FormatInt(-1)]
            ELSE [date |-> isoformat(first_of_month(dts[i][1], dts[i][2])),
                  count |-> FormatInt(choice[i].ndocs)]])

CachesFor(dts) == {NoFile} \cup {Stored(dts, c) : c \in StoredRows(dts)}

\* Every cache file is absent or was left by runs over the same period list.
Init ==
    /\ ndates = Len(dates)
    /\ periods \in {Window(k) : k \in 1..MaxN}
    /\ files \in [FileNames -> CachesFor(periods)]
    /\ last = NoCall

\* The cache files were left by runs over period lists of any length from 1.
InitMismatch ==
    /\ ndates = Len(dates)
    /\ periods \in {Window(k) : k \in 1..MaxN}
    /\ files \in [FileNames -> UNION {CachesFor(Window(k)) : k \in 1..MaxN}]
    /\ last = NoCall

Next ==
    \E p \in Pairs, overwrite \in BOOLEAN :
        get_df(p[1], p[2], periods, overwrite)

Spec == Init /\ [][Next]_vars

SpecMismatch == InitMismatch /\ [][Next]_vars

----------------------------------------------------------------------------
(* Vocabulary of the properties.                                           *)

n == Len(periods)

\* The cache file of the most recent call.
last_file == files[cache_file(last.term, last.db)]

\* The count a stored row holds.
CountOf(row) == ParseInt(row.count)

RowPending(row) == CountOf(row) = -1

RowResolved(row) == CountOf(row) >= 0

\* The date of the first day of period p.
FirstDay(p) == <<p[1], p[2], 1>>

\* q lists the members of S in increasing order, each once.
IncreasingListOf(q, S) ==
    /\ Len(q) = Cardinality(S)
    /\ \A k \in 1..Len(q) : q[k] \in S
    /\ \A k \in 1..Len(q), l \in 1..Len(q) : k < l => q[k] < q[l]

PendingIndices(file) == {i \in 1..Len(file.rows) : RowPending(file.rows[i])}

ResolvedIndices(file) == {i \in 1..Len(file.rows) : RowResolved(file.rows[i])}

\* The most recent call returned (no exception left it).
Returned == last.called /\ last.raised = "none"

----------------------------------------------------------------------------
(* C1. Resume: a call without overwrite on a stored cache of n rows, in    *)
(* which every query succeeds, queries exactly the pending indices, each   *)
(* once and in increasing order, and leaves the count of every record      *)
(* that was already resolved as it was, in the cache and in the table.     *)
C1_Resume ==
    (Returned /\ ~last.overwrite /\ last.before.exists
        /\ Len(last.before.rows) = n)
    => /\ IncreasingListOf(last.queries, PendingIndices(last.before))
       /\ \A i \in ResolvedIndices(last.before) :
            /\ CountOf(last_file.rows[i]) = CountOf(last.before.rows[i])
            /\ last.table[i].count = CountOf(last.before.rows[i])

\* A resumed call: some records were resolved (one of them with count 0),
\* some pending, and the call returned.
C1_Witness ==
    /\ Returned /\ ~last.overwrite /\ last.before.exists
    /\ PendingIndices(last.before) # {}
    /\ \E i \in ResolvedIndices(last.before) : CountOf(last.before.rows[i]) = 0
    /\ Len(last.queries) = n - 1

(* C2. Idempotence: a call that repeats the previous one (same term, db    *)
(* and periods, both without overwrite, the previous one returned) issues  *)
(* no query and returns a table equal to the one the previous returned.    *)
C2_Idempotence ==
    last.repeat =>
        /\ last.raised = "none"
        /\ last.queries = <<>>
        /\ last.table = last.prev

\* A repeated call that returned a full table.
C2_Witness ==
    /\ last.repeat
    /\ Len(last.table) = n
    /\ n > 1

(* C3. Failure persistence: when the query for index j raises, record j is *)
(* pending in the cache file and every record resolved earlier in the same *)
(* call is resolved in the cache file, with the count obtained.            *)
C3_FailurePersistence ==
    (last.called /\ last.raised = "query")
    => LET j == last.queries[Len(last.queries)]
       IN  /\ last_file.exists
           /\ RowPending(last_file.rows[j])
           /\ \A k \in 1..(Len(last.queries) - 1) :
                CountOf(last_file.rows[last.queries[k]]) = last.answers[k]

(* C4. Overwrite: a call with overwrite in which every query succeeds      *)
(* queries every period once, in order, whatever the cache held, and every *)
(* record of the cache and of the table holds the count obtained in this   *)
(* call.                                                                   *)
C4_Overwrite ==
    (Returned /\ last.overwrite)
    => /\ last.queries = [i \in 1..n |-> i]
       /\ Len(last.answers) = n
       /\ Len(last.table) = n
       /\ Len(last_file.rows) = n
       /\ \A i \in 1..n :
            /\ last.table[i].count = last.answers[i]
            /\ CountOf(last_file.rows[i]) = last.answers[i]

\* An overwriting call on a cache that held, for some period, a resolved
\* count other than the one the call obtained.
C4_Witness ==
    /\ Returned /\ last.overwrite /\ last.before.exists
    /\ \E i \in ResolvedIndices(last.before) :
        CountOf(last.before.rows[i]) # last.answers[i]

(* C5. Fresh run: a call that finds no cache file and in which every query *)
(* succeeds returns one row per period, in period order, row i with a      *)
(* count >= 0 and the first day of period i as its date.                   *)
C5_FreshRun ==
    (Returned /\ ~last.before.exists)
    => /\ Len(last.table) = n
       /\ \A i \in 1..n :
            /\ last.table[i].count >= 0
            /\ last.table[i].date = FirstDay(periods[i])
            /\ last.table[i].date # placeholder

\* A fresh run over a list of more than one period, crossing a year.
C5_Witness ==
    /\ Returned /\ ~last.before.exists /\ ~last.overwrite
    /\ n > 1
    /\ periods[1][1] # periods[n][1]

(* C6. Length mismatch: a call without overwrite on a stored cache whose   *)
(* number of rows differs from the number of periods either raises or      *)
(* returns and persists n rows, each pending or holding the date of its    *)
(* period.                                                                 *)
C6_LengthMismatch ==
    (last.called /\ ~last.overwrite /\ last.before.exists
        /\ Len(last.before.rows) # n)
    => \/ last.raised # "none"
       \/ /\ Len(last.table) = n
          /\ Len(last_file.rows) = n
          /\ \A i \in 1..n :
                \/ RowPending(last_file.rows[i])
                \/ last.table[i].date = FirstDay(periods[i])

(* C7, as claimed. Empty result: a query that returns no documents does    *)
(* not leave its period resolved with count 0: the call raises and the     *)
(* record stays pending.                                                   *)
C7_EmptyResultSurfaced ==
    last.called =>
        \A k \in 1..Len(last.answers) :
            last.answers[k] = 0 =>
                /\ last.raised # "none"
                /\ ~RowResolved(last_file.rows[last.queries[k]])

(* C7, amended. Empty result: when a query returns no documents and the    *)
(* call returns, the period is resolved with count 0 and the first day of  *)
(* its month, in the returned table and in the cache file, like any other  *)
(* count.                                                                  *)
C7_EmptyResultIsZero ==
    Returned =>
        \A k \in 1..Len(last.answers) :
            last.answers[k] = 0 =>
                LET i == last.queries[k]
                IN  /\ last.table[i] = [date |-> FirstDay(periods[i]), count |-> 0]
                    /\ last_file.rows[i] =
                        [date |-> isoformat(FirstDay(periods[i])), count |-> <<"0">>]

\* A call that returned after a query came back empty.
C7_Witness ==
    /\ Returned
    /\ \E k \in 1..Len(last.answers) : last.answers[k] = 0

(* C8. Period generation: the grid `dates` runs from (1991, 2) to          *)
(* (2018, 2), each element the month after the one before it, and its      *)
(* length, held in ndates, is 12*(2018-1991) + 2 - 1 = 325.                *)
C8_PeriodGeneration ==
    /\ ndates = 12 * (2018 - 1991) + 2 - 1
    /\ ndates = 325
    /\ Len(dates) = ndates
    /\ dates[1] = <<1991, 2>>
    /\ dates[Len(dates)] = <<2018, 2>>
    /\ \A k \in 1..(Len(dates) - 1) :
        dates[k + 1] = IF dates[k][2] = 12 THEN <<dates[k][1] + 1, 1>>
                       ELSE <<dates[k][1], dates[k][2] + 1>>

\* The grid was built and a call was made over a stretch of it.
C8_Witness ==
    /\ last.called
    /\ ndates > 0
    /\ periods = SubSeq(dates, WinStart, WinStart + n - 1)

(* C9. Cache invariant: over calls with one period list of n periods, a    *)
(* cache file that exists has n rows, row i pending or resolved with the   *)
(* first day of period i as its date; and a call without overwrite leaves  *)
(* every resolved record resolved with the same count.                     *)
WellFormed(file) ==
    file.exists =>
        /\ Len(file.rows) = n
        /\ \A i \in 1..n :
            \/ RowPending(file.rows[i])
            \/ /\ RowResolved(file.rows[i])
               /\ parse_date(file.rows[i].date) = FirstDay(periods[i])

KeepsResolved ==
    ~last'.overwrite =>
        \A f \in FileNames :
            \A i \in ResolvedIndices(files[f]) :
                /\ files'[f].exists
                /\ CountOf(files'[f].rows[i]) = CountOf(files[f].rows[i])

C9_CacheInvariant ==
    /\ [](\A f \in FileNames : WellFormed(files[f]))
    /\ [][KeepsResolved]_vars

\* A call without overwrite that raised on a cache with a resolved record.
C9_Witness ==
    /\ last.called /\ ~last.overwrite /\ last.raised = "query"
    /\ ResolvedIndices(last.before) # {}
    /\ ResolvedIndices(last_file) = ResolvedIndices(last.before)

(* C10. Cache isolation: a call for one (term, db) pair leaves the cache   *)
(* file of every other pair as it was.                                     *)
C10_CacheIsolation ==
    [][\A q \in Pairs :
        q # <<last'.term, last'.db>> =>
            files'[cache_file(q[1], q[2])] = files[cache_file(q[1], q[2])]]_vars

====
